---- MODULE Spec2Model ----
(***************************************************************************)
(* Crawler scheduler (src/crawler-scheduler/app): the warm-up rate limiter *)
(* (rate_limiter.py), the MongoDB tracking collection (database.py), the   *)
(* file processor (file_processor.py) and the Celery tasks (tasks.py).     *)
(*                                                                         *)
(* Time is an integer count of slices; an hour has UnitsPerHour slices and *)
(* a day HoursPerDay hours.  `now` is the absolute (UTC) instant; the wall *)
(* clock of the configured timezone is now + cfg.tz hours.                 *)
(***************************************************************************)
EXTENDS Integers, Sequences, FiniteSets, TLC

VARIABLES
    cfg,        \* Config: WARMUP_ENABLED, WARMUP_START_HOUR, WARMUP_END_HOUR, schedule, jitter, timezone
    now,        \* the clock (datetime.now)
    ledger,     \* the tracking collection: filename -> document, or NoDoc
    files,      \* filename -> the directories that hold a file of that name
    valid,      \* filename -> whether the file's content parses as JSON
    pc,         \* worker -> position inside the task it runs
    kind,       \* worker -> "tick" (process_pending_files) or "single" (process_single_file)
    cur,        \* worker -> the file the task works on (file_to_process / file_path)
    listed,     \* worker -> pending_files as returned by get_pending_files
    wake,       \* worker -> instant at which time.sleep(jitter) returns
    resp,       \* worker -> outcome that decides the bookkeeping and the move
    ret,        \* worker -> the dict the last finished task returned
    runs,       \* number of tasks started so far
    drops,      \* number of files the producer has dropped so far
    claimed,    \* filename -> number of mark_file_as_processing calls that returned True
    refused,    \* filename -> number of mark_file_as_processing calls that returned False
    apiCalls,   \* filename -> number of _call_api invocations
    calls,      \* the _call_api invocations: who made them and at which hour
    probe,      \* result of the last direct call of a RateLimiter method
    dbUp,       \* whether MongoDB answers; FALSE makes every pymongo call raise
    tally       \* worker -> what its running process_file call has done so far:
                \* documents written, _call_api invocations

vars == <<cfg, now, ledger, files, valid, pc, kind, cur, listed, wake, resp, ret,
          runs, drops, claimed, refused, apiCalls, calls, probe, dbUp, tally>>

----------------------------------------------------------------------------
(* Bounds of the model *)

NumItems == 2
NumProcs == 2
MaxRuns == 3
MaxDrops == 1
UnitsPerHour == 2
Horizon == 3

(* Calendar *)
HoursPerDay == 24

Items == 1..NumItems
Procs == 1..NumProcs
UnitsPerDay == UnitsPerHour * HoursPerDay
InitNow == (HoursPerDay - 1) * UnitsPerHour
MaxNow == InitNow + Horizon

NoDoc == [status |-> "absent", attempts |-> 0, processed_at |-> -1]
NoItem == 0
NoReason == [kind |-> "none", daily |-> 0, limit |-> 0, day |-> 0]
NoRet == [status |-> "none", reason |-> NoReason]
NoProbe == [fn |-> "none"]
NoTally == [writes |-> 0, posts |-> 0]

----------------------------------------------------------------------------
(* Clock helpers: datetime.now(self.timezone), .hour, .date() *)

LocalTime(t) == t + cfg.tz * UnitsPerHour
HourOf(wall) == (wall \div UnitsPerHour) % HoursPerDay
DateOf(wall) == wall \div UnitsPerDay

(* Python list indexing with a 0-based index that may be negative *)
PyIndex(seq, k) == IF k >= 0 THEN seq[k + 1] ELSE seq[Len(seq) + k + 1]

----------------------------------------------------------------------------
(* database.py: queries of the tracking collection *)

(* is_file_processed: a document of any status exists for the filename *)
is_file_processed(f) == ledger[f].status # "absent"

Processed == {f \in Items : ledger[f].status = "processed"}

(* today_start: local midnight of the current local date, as an instant *)
TodayStart == DateOf(LocalTime(now)) * UnitsPerDay - cfg.tz * UnitsPerHour

(* get_daily_processed_count: status processed and processed_at >= today_start; *)
(* 0 when count_documents raises                                               *)
get_daily_processed_count ==
    IF dbUp
    THEN Cardinality({f \in Processed : ledger[f].processed_at >= TodayStart})
    ELSE 0

(* The stored processed_at of the first processed document, as the driver   *)
(* hands it back: timezone-aware (converted to the configured timezone) or  *)
(* naive (the UTC wall clock, which the code then labels as local time).    *)
FirstProcessedAt ==
    CHOOSE t \in {ledger[f].processed_at : f \in Processed} :
        \A g \in Processed : t <= ledger[g].processed_at

FirstWall == IF cfg.tzAware THEN LocalTime(FirstProcessedAt) ELSE FirstProcessedAt

(* get_warmup_day; 1 when find_one raises *)
get_warmup_day ==
    IF ~dbUp \/ Processed = {} THEN 1
    ELSE (DateOf(LocalTime(now)) - DateOf(FirstWall)) + 1

(* get_processing_stats *)
get_processing_stats ==
    [total      |-> Cardinality({f \in Items : ledger[f].status # "absent"}),
     processed  |-> Cardinality(Processed),
     processing |-> Cardinality({f \in Items : ledger[f].status = "processing"}),
     failed     |-> Cardinality({f \in Items : ledger[f].status = "failed"})]

----------------------------------------------------------------------------
(* rate_limiter.py *)

IsInTimeWindow_EndExclusive(current_hour, start_hour, end_hour) ==
    LET end == IF end_hour = 0 \/ end_hour = 24 THEN 24 ELSE end_hour
    IN  IF start_hour <= end
        THEN start_hour <= current_hour /\ current_hour < end
        ELSE current_hour >= start_hour \/ current_hour < end

IsInTimeWindow_StrictOrder(current_hour, start_hour, end_hour) ==
    LET end == IF end_hour = 0 \/ end_hour = 24 THEN 24 ELSE end_hour
    IN  IF start_hour < end
        THEN start_hour <= current_hour /\ current_hour <= end
        ELSE current_hour >= start_hour \/ current_hour <= end

IsInTimeWindow_NoEndOfDay(current_hour, start_hour, end_hour) ==
    IF start_hour <= end_hour
    THEN start_hour <= current_hour /\ current_hour <= end_hour
    ELSE current_hour >= start_hour \/ current_hour <= end_hour

(* _is_in_time_window, on the hour of the clock and the configured bounds *)
IsInTimeWindow(current_hour, start_hour, end_hour) ==
    LET end == IF end_hour = 0 \/ end_hour = 24 THEN 24 ELSE end_hour
    IN  IF start_hour <= end
        THEN start_hour <= current_hour /\ current_hour <= end
        ELSE current_hour >= start_hour \/ current_hour <= end

_is_in_time_window == IsInTimeWindow(HourOf(LocalTime(now)), cfg.start, cfg.end)

(* scripts/test_time_window.py: the replica the test table runs against *)
test_time_window(current_hour, start_hour, end_hour) ==
    LET end == IF end_hour = 0 \/ end_hour = 24 THEN 24 ELSE end_hour
    IN  IF start_hour <= end
        THEN start_hour <= current_hour /\ current_hour <= end
        ELSE current_hour >= start_hour \/ current_hour <= end

CurrentDailyLimit_NoSticky(day, schedule) ==
    IF day <= Len(schedule)
    THEN PyIndex(schedule, day - 1)
    ELSE schedule[1]

(* _get_current_daily_limit, on the warm-up day and the schedule *)
CurrentDailyLimit(day, schedule) ==
    IF day <= Len(schedule)
    THEN PyIndex(schedule, day - 1)
    ELSE schedule[Len(schedule)]

_get_current_daily_limit == CurrentDailyLimit(get_warmup_day, cfg.schedule)

CanProcess_LimitOffByOne(enabled, in_window, daily_count, daily_limit, day) ==
    IF ~enabled
    THEN [allowed |-> TRUE, reason |-> [kind |-> "disabled", daily |-> 0, limit |-> 0, day |-> 0]]
    ELSE IF ~in_window
    THEN [allowed |-> FALSE, reason |-> [kind |-> "window", daily |-> 0, limit |-> 0, day |-> 0]]
    ELSE IF daily_count > daily_limit
    THEN [allowed |-> FALSE,
          reason |-> [kind |-> "limit", daily |-> daily_count, limit |-> daily_limit, day |-> day]]
    ELSE [allowed |-> TRUE,
          reason |-> [kind |-> "ok", daily |-> daily_count, limit |-> daily_limit, day |-> day]]

(* can_process_now: (can_process, reason); the reason keeps the figures the *)
(* message prints *)
CanProcess(enabled, in_window, daily_count, daily_limit, day) ==
    IF ~enabled
    THEN [allowed |-> TRUE, reason |-> [kind |-> "disabled", daily |-> 0, limit |-> 0, day |-> 0]]
    ELSE IF ~in_window
    THEN [allowed |-> FALSE, reason |-> [kind |-> "window", daily |-> 0, limit |-> 0, day |-> 0]]
    ELSE IF daily_count >= daily_limit
    THEN [allowed |-> FALSE,
          reason |-> [kind |-> "limit", daily |-> daily_count, limit |-> daily_limit, day |-> day]]
    ELSE [allowed |-> TRUE,
          reason |-> [kind |-> "ok", daily |-> daily_count, limit |-> daily_limit, day |-> day]]

can_process_now ==
    CanProcess(cfg.enabled, _is_in_time_window, get_daily_processed_count,
               _get_current_daily_limit, get_warmup_day)

----------------------------------------------------------------------------
(* database.py: writes to the tracking collection *)

(* insert_one under the unique index on filename: the document is inserted  *)
(* when none exists (True), DuplicateKeyError leaves the collection as it   *)
(* is (False)                                                               *)
InsertAccepted_NoUniqueIndex(f) == TRUE

InsertAccepted(f) == ledger[f].status = "absent"

mark_file_as_processing_DuplicateIsTrue(f) ==
    IF InsertAccepted(f)
    THEN [ok |-> TRUE,
          db |-> [ledger EXCEPT ![f] = [status |-> "processing", attempts |-> 1,
                                        processed_at |-> -1]]]
    ELSE [ok |-> TRUE, db |-> ledger]

mark_file_as_processing_Upsert(f) ==
    [ok |-> dbUp /\ InsertAccepted(f),
     db |-> [ledger EXCEPT ![f] = [status |-> "processing", attempts |-> 1,
                                   processed_at |-> -1]]]

(* mark_file_as_processing: any other exception of insert_one is logged and *)
(* gives False as well                                                      *)
mark_file_as_processing(f) ==
    IF dbUp /\ InsertAccepted(f)
    THEN [ok |-> TRUE,
          db |-> [ledger EXCEPT ![f] = [status |-> "processing", attempts |-> 1,
                                        processed_at |-> -1]]]
    ELSE [ok |-> FALSE, db |-> ledger]

(* update_one({'filename': f}, $set status/processed_at): no upsert, so a   *)
(* missing document stays missing; the filter does not look at the status;  *)
(* an exception of update_one is logged and dropped                         *)
mark_file_as_processed(f) ==
    IF ~dbUp \/ ledger[f].status = "absent" THEN ledger
    ELSE [ledger EXCEPT ![f].status = "processed", ![f].processed_at = now]

(* update_one({'filename': f}, $set status/failed_at, $inc attempts) *)
mark_file_as_failed(f) ==
    IF ~dbUp \/ ledger[f].status = "absent" THEN ledger
    ELSE [ledger EXCEPT ![f].status = "failed", ![f].attempts = @ + 1]

----------------------------------------------------------------------------
(* file_processor.py *)

(* get_pending_files: the *.txt files of the pending directory that have no *)
(* document in the collection; an exception of is_file_processed is caught  *)
(* and gives the empty list                                                 *)
get_pending_files ==
    IF dbUp
    THEN {f \in Items : "pending" \in files[f] /\ ~is_file_processed(f)}
    ELSE {}

(* shutil.move(file_path, dest_dir / filename): a missing source raises and *)
(* the exception is logged and dropped                                      *)
MoveTo(f, dest) ==
    IF "pending" \in files[f]
    THEN [files EXCEPT ![f] = (@ \ {"pending"}) \cup {dest}]
    ELSE files

_move_to_processed(f) == MoveTo(f, "processed")
_move_to_failed(f) == MoveTo(f, "failed")

StatusOf_Completed(success) == IF success THEN "completed" ELSE "failed"

(* the status process_pending_files / process_single_file report for the    *)
(* boolean process_file returned                                            *)
StatusOf(success) == IF success THEN "success" ELSE "failed"

Finished(p, status, reason) ==
    /\ pc' = [pc EXCEPT ![p] = "idle"]
    /\ ret' = [ret EXCEPT ![p] = [status |-> status, reason |-> reason]]

(* the locals of a finished process_file call are gone *)
Forget(p) ==
    /\ wake' = [wake EXCEPT ![p] = 0]
    /\ resp' = [resp EXCEPT ![p] = "none"]
    /\ tally' = [tally EXCEPT ![p] = NoTally]

----------------------------------------------------------------------------
StartTick_DeniedStillLists(p) ==
    /\ pc[p] = "idle"
    /\ runs < MaxRuns
    /\ runs' = runs + 1
    /\ kind' = [kind EXCEPT ![p] = "tick"]
    /\ cur' = [cur EXCEPT ![p] = NoItem]
    /\ listed' = [listed EXCEPT ![p] = {}]
    /\ pc' = [pc EXCEPT ![p] = "list"]
    /\ ret' = [ret EXCEPT ![p] = [status |-> "running", reason |-> NoReason]]
    /\ UNCHANGED <<cfg, now, ledger, files, valid, wake, resp, drops,
                   claimed, refused, apiCalls, calls, probe, dbUp, tally>>

(* tasks.py: process_pending_files, first part: the rate limiter check.     *)
(* A denied task returns 'skipped' with the reason.                         *)
StartTick(p) ==
    /\ pc[p] = "idle"
    /\ runs < MaxRuns
    /\ runs' = runs + 1
    /\ kind' = [kind EXCEPT ![p] = "tick"]
    /\ cur' = [cur EXCEPT ![p] = NoItem]
    /\ listed' = [listed EXCEPT ![p] = {}]
    /\ IF can_process_now.allowed
       THEN /\ pc' = [pc EXCEPT ![p] = "list"]
            /\ ret' = [ret EXCEPT ![p] = [status |-> "running", reason |-> NoReason]]
       ELSE Finished(p, "skipped", can_process_now.reason)
    /\ UNCHANGED <<cfg, now, ledger, files, valid, wake, resp, drops,
                   claimed, refused, apiCalls, calls, probe, dbUp, tally>>

(* process_pending_files, second part: get_pending_files, 'no_files' when   *)
(* the list is empty, else pending_files[0] goes to process_file.  The      *)
(* order of Path.glob is the directory's, so the first file is any of them. *)
ListPending(p) ==
    /\ pc[p] = "list"
    /\ listed' = [listed EXCEPT ![p] = get_pending_files]
    /\ IF get_pending_files = {}
       THEN /\ Finished(p, "no_files", NoReason)
            /\ cur' = cur
       ELSE /\ \E f \in get_pending_files : cur' = [cur EXCEPT ![p] = f]
            /\ pc' = [pc EXCEPT ![p] = "read"]
            /\ ret' = ret
    /\ UNCHANGED <<cfg, now, ledger, files, valid, kind, wake, resp, runs, drops,
                   claimed, refused, apiCalls, calls, probe, dbUp, tally>>

(* tasks.py: process_single_file(file_path) for a path in the pending       *)
(* directory: process_file without the rate limiter check                   *)
StartSingle(p, f) ==
    /\ pc[p] = "idle"
    /\ runs < MaxRuns
    /\ runs' = runs + 1
    /\ kind' = [kind EXCEPT ![p] = "single"]
    /\ cur' = [cur EXCEPT ![p] = f]
    /\ listed' = [listed EXCEPT ![p] = {}]
    /\ pc' = [pc EXCEPT ![p] = "read"]
    /\ ret' = [ret EXCEPT ![p] = [status |-> "running", reason |-> NoReason]]
    /\ UNCHANGED <<cfg, now, ledger, files, valid, wake, resp, drops,
                   claimed, refused, apiCalls, calls, probe, dbUp, tally>>

(* process_file step 1: open the file and json.load it.  A missing file     *)
(* lands in `except Exception`, malformed content in `except                *)
(* json.JSONDecodeError`; both go on to mark_file_as_failed.                *)
ReadFile(p) ==
    /\ pc[p] = "read"
    /\ IF "pending" \notin files[cur[p]]
       THEN /\ resp' = [resp EXCEPT ![p] = "exc"]
            /\ pc' = [pc EXCEPT ![p] = "record"]
       ELSE IF ~valid[cur[p]]
       THEN /\ resp' = [resp EXCEPT ![p] = "jsonerr"]
            /\ pc' = [pc EXCEPT ![p] = "record"]
       ELSE /\ resp' = resp
            /\ pc' = [pc EXCEPT ![p] = "check"]
    /\ UNCHANGED <<cfg, now, ledger, files, valid, kind, cur, listed, wake, ret,
                   runs, drops, claimed, refused, apiCalls, calls, probe, dbUp, tally>>

(* process_file step 2: is_file_processed double-check; a known filename    *)
(* is moved to the processed directory and process_file returns True; an    *)
(* exception of find_one lands in `except Exception`                        *)
CheckProcessed(p) ==
    /\ pc[p] = "check"
    /\ IF ~dbUp
       THEN /\ resp' = [resp EXCEPT ![p] = "dberr"]
            /\ pc' = [pc EXCEPT ![p] = "record"]
       ELSE IF is_file_processed(cur[p])
       THEN /\ resp' = [resp EXCEPT ![p] = "dup"]
            /\ pc' = [pc EXCEPT ![p] = "move"]
       ELSE /\ resp' = resp
            /\ pc' = [pc EXCEPT ![p] = "claim"]
    /\ UNCHANGED <<cfg, now, ledger, files, valid, kind, cur, listed, wake, ret,
                   runs, drops, claimed, refused, apiCalls, calls, probe, dbUp, tally>>

(* process_file steps 3 and 4: mark_file_as_processing; False returns False *)
(* from process_file, True draws the jitter and starts time.sleep(jitter)   *)
MarkProcessing(p) ==
    /\ pc[p] = "claim"
    /\ LET r == mark_file_as_processing(cur[p]) IN
       /\ ledger' = r.db
       /\ IF r.ok
          THEN /\ claimed' = [claimed EXCEPT ![cur[p]] = @ + 1]
               /\ refused' = refused
               /\ tally' = [tally EXCEPT ![p].writes = @ + 1]
               /\ \E j \in cfg.jitterMin..cfg.jitterMax :
                      wake' = [wake EXCEPT ![p] = now + j]
               /\ pc' = [pc EXCEPT ![p] = "sleep"]
               /\ ret' = ret
          ELSE /\ claimed' = claimed
               /\ refused' = [refused EXCEPT ![cur[p]] = @ + 1]
               /\ tally' = tally
               /\ wake' = wake
               /\ Finished(p, StatusOf(FALSE), NoReason)
    /\ UNCHANGED <<cfg, now, files, valid, kind, cur, listed, resp, runs, drops,
                   apiCalls, calls, probe, dbUp>>

CallApi_RetryOnce(p) ==
    /\ pc[p] = "sleep"
    /\ now >= wake[p]
    /\ apiCalls' = [apiCalls EXCEPT ![cur[p]] = @ + 1]
    /\ calls' = calls \cup {[file |-> cur[p], by |-> kind[p], hour |-> HourOf(LocalTime(now))]}
    /\ tally' = [tally EXCEPT ![p].posts = @ + 1]
    /\ \E r \in {"ok", "fail"} :
          IF r = "fail" /\ tally[p].posts = 0
          THEN resp' = resp /\ pc' = pc
          ELSE /\ resp' = [resp EXCEPT ![p] = r]
               /\ pc' = [pc EXCEPT ![p] = "record"]
    /\ UNCHANGED <<cfg, now, ledger, files, valid, kind, cur, listed, wake, ret,
                   runs, drops, claimed, refused, probe, dbUp>>

(* process_file step 5: once the sleep is over, _call_api posts the data;   *)
(* it returns the response dict on HTTP 200 and None on any other status,   *)
(* timeout or request error                                                 *)
CallApi(p) ==
    /\ pc[p] = "sleep"
    /\ now >= wake[p]
    /\ apiCalls' = [apiCalls EXCEPT ![cur[p]] = @ + 1]
    /\ calls' = calls \cup {[file |-> cur[p], by |-> kind[p], hour |-> HourOf(LocalTime(now))]}
    /\ \E r \in {"ok", "fail"} : resp' = [resp EXCEPT ![p] = r]
    /\ tally' = [tally EXCEPT ![p].posts = @ + 1]
    /\ pc' = [pc EXCEPT ![p] = "record"]
    /\ UNCHANGED <<cfg, now, ledger, files, valid, kind, cur, listed, wake, ret,
                   runs, drops, claimed, refused, probe, dbUp>>

(* process_file: the bookkeeping after the API call or in the except        *)
(* handlers: mark_file_as_processed on a response, else mark_file_as_failed *)
RecordResult(p) ==
    /\ pc[p] = "record"
    /\ ledger' = IF resp[p] = "ok" THEN mark_file_as_processed(cur[p])
                 ELSE mark_file_as_failed(cur[p])
    /\ tally' = [tally EXCEPT ![p].writes = IF ledger' # ledger THEN @ + 1 ELSE @]
    /\ pc' = [pc EXCEPT ![p] = "move"]
    /\ UNCHANGED <<cfg, now, files, valid, kind, cur, listed, wake, resp, ret,
                   runs, drops, claimed, refused, apiCalls, calls, probe, dbUp>>

MoveFile_NextFile(p) ==
    /\ pc[p] = "move"
    /\ files' = IF resp[p] \in {"ok", "dup"} THEN _move_to_processed(cur[p])
                ELSE _move_to_failed(cur[p])
    /\ IF listed[p] \ {cur[p]} # {}
       THEN /\ \E f \in listed[p] \ {cur[p]} : cur' = [cur EXCEPT ![p] = f]
            /\ listed' = [listed EXCEPT ![p] = @ \ {cur[p]}]
            /\ pc' = [pc EXCEPT ![p] = "read"]
            /\ resp' = [resp EXCEPT ![p] = "none"]
            /\ UNCHANGED <<ret, wake, tally>>
       ELSE /\ Finished(p, StatusOf(resp[p] \in {"ok", "dup"}), NoReason)
            /\ Forget(p)
            /\ UNCHANGED <<cur, listed>>
    /\ UNCHANGED <<cfg, now, ledger, valid, kind,
                   runs, drops, claimed, refused, apiCalls, calls, probe, dbUp>>

(* process_file: the move that ends it, and the dict the task returns:      *)
(* _move_to_processed and True after a response or a duplicate, else        *)
(* _move_to_failed and False                                                *)
MoveFile(p) ==
    /\ pc[p] = "move"
    /\ files' = IF resp[p] \in {"ok", "dup"} THEN _move_to_processed(cur[p])
                ELSE _move_to_failed(cur[p])
    /\ Finished(p, StatusOf(resp[p] \in {"ok", "dup"}), NoReason)
    /\ Forget(p)
    /\ UNCHANGED <<cfg, now, ledger, valid, kind, cur, listed,
                   runs, drops, claimed, refused, apiCalls, calls, probe, dbUp>>

----------------------------------------------------------------------------
(* The environment: time passes; a producer drops a file into the pending   *)
(* directory                                                                *)
AdvanceClock ==
    /\ now < MaxNow
    /\ now' = now + 1
    /\ UNCHANGED <<cfg, ledger, files, valid, pc, kind, cur, listed, wake, resp, ret,
                   runs, drops, claimed, refused, apiCalls, calls, probe, dbUp, tally>>

DropFile(f) ==
    /\ drops < MaxDrops
    /\ "pending" \notin files[f]
    /\ drops' = drops + 1
    /\ files' = [files EXCEPT ![f] = @ \cup {"pending"}]
    /\ UNCHANGED <<cfg, now, ledger, valid, pc, kind, cur, listed, wake, resp, ret,
                   runs, claimed, refused, apiCalls, calls, probe, dbUp, tally>>

(* MongoDB becomes unreachable, and reachable again *)
DbDown ==
    /\ dbUp
    /\ dbUp' = FALSE
    /\ UNCHANGED <<cfg, now, ledger, files, valid, pc, kind, cur, listed, wake, resp, ret,
                   runs, drops, claimed, refused, apiCalls, calls, probe, tally>>

DbBack ==
    /\ ~dbUp
    /\ dbUp' = TRUE
    /\ UNCHANGED <<cfg, now, ledger, files, valid, pc, kind, cur, listed, wake, resp, ret,
                   runs, drops, claimed, refused, apiCalls, calls, probe, tally>>

----------------------------------------------------------------------------
(* Config as celery_app.py lets it through: Config.validate has passed      *)
Validate(c) ==
    /\ c.start < c.end
    /\ c.jitterMin < c.jitterMax
    /\ Len(c.schedule) > 0
    /\ \A k \in 1..Len(c.schedule) : c.schedule[k] > 0

Configs ==
    {[enabled |-> e, start |-> HoursPerDay - 2, end |-> HoursPerDay - 1, schedule |-> <<1, 2>>,
      jitterMin |-> 1, jitterMax |-> 2, tz |-> 0, tzAware |-> FALSE] : e \in BOOLEAN}

InitWorkers ==
    /\ pc = [p \in Procs |-> "idle"]
    /\ kind = [p \in Procs |-> "tick"]
    /\ cur = [p \in Procs |-> NoItem]
    /\ listed = [p \in Procs |-> {}]
    /\ wake = [p \in Procs |-> 0]
    /\ resp = [p \in Procs |-> "none"]
    /\ ret = [p \in Procs |-> NoRet]
    /\ runs = 0
    /\ drops = 0
    /\ claimed = [f \in Items |-> 0]
    /\ refused = [f \in Items |-> 0]
    /\ apiCalls = [f \in Items |-> 0]
    /\ calls = {}
    /\ tally = [p \in Procs |-> NoTally]

Init ==
    /\ cfg \in {c \in Configs : Validate(c)}
    /\ now = InitNow
    /\ ledger = [f \in Items |-> NoDoc]
    /\ files \in {[f \in Items |-> IF f <= k THEN {"pending"} ELSE {}] : k \in Items}
    /\ valid \in {v \in [Items -> BOOLEAN] : \A f \in Items : f > 1 => v[f]}
    /\ InitWorkers
    /\ probe = NoProbe
    /\ dbUp = TRUE

Next ==
    \/ \E p \in Procs : StartTick(p)
    \/ \E p \in Procs : ListPending(p)
    \/ \E p \in Procs, f \in Items : StartSingle(p, f)
    \/ \E p \in Procs : ReadFile(p)
    \/ \E p \in Procs : CheckProcessed(p)
    \/ \E p \in Procs : MarkProcessing(p)
    \/ \E p \in Procs : CallApi(p)
    \/ \E p \in Procs : RecordResult(p)
    \/ \E p \in Procs : MoveFile(p)
    \/ AdvanceClock
    \/ \E f \in Items : DropFile(f)

Spec == Init /\ [][Next]_vars

(* The same tasks with a MongoDB that may be unreachable for a while, on    *)
(* well-formed files with warm-up enabled; one file is pending at the start *)
(* and the producer may drop more                                           *)
InitFault ==
    /\ cfg \in {c \in Configs : Validate(c) /\ c.enabled}
    /\ now = InitNow
    /\ ledger = [f \in Items |-> NoDoc]
    /\ files = [f \in Items |-> IF f = 1 THEN {"pending"} ELSE {}]
    /\ valid = [f \in Items |-> TRUE]
    /\ InitWorkers
    /\ probe = NoProbe
    /\ dbUp = TRUE

NextFault == Next \/ DbDown \/ DbBack

SpecFault == InitFault /\ [][NextFault]_vars

----------------------------------------------------------------------------
(* Direct calls of the RateLimiter methods, as scripts/test_time_window.py  *)
(* and the status task make them: the configuration, the clock and the      *)
(* collection are whatever they are at the time of the call.                *)

MaxQuota == 3
MaxSchedLen == 3
MaxWarmupDay == 5

Hours == 0..(HoursPerDay - 1)

BaseConfig == [enabled |-> TRUE, start |-> 10, end |-> 12, schedule |-> <<1, 2>>,
               jitterMin |-> 1, jitterMax |-> 2, tz |-> 0, tzAware |-> FALSE]

(* _is_in_time_window and the test script's replica, on any window and     *)
(* hour, and what Config.validate says of that window                       *)
WindowProbe ==
    /\ probe.fn = "none"
    /\ probe' = [fn |-> "window",
                 in |-> _is_in_time_window,
                 test |-> test_time_window(HourOf(LocalTime(now)), cfg.start, cfg.end),
                 accepted |-> Validate(cfg)]
    /\ UNCHANGED <<cfg, now, ledger, files, valid, pc, kind, cur, listed, wake, resp, ret,
                   runs, drops, claimed, refused, apiCalls, calls, dbUp, tally>>

InitWindow ==
    /\ cfg \in {[BaseConfig EXCEPT !.start = s, !.end = e] : s \in Hours, e \in 0..HoursPerDay}
    /\ now \in {h * UnitsPerHour : h \in Hours}
    /\ ledger = [f \in Items |-> NoDoc]
    /\ files = [f \in Items |-> {"pending"}]
    /\ valid = [f \in Items |-> TRUE]
    /\ InitWorkers
    /\ probe = NoProbe
    /\ dbUp = TRUE

SpecWindow == InitWindow /\ [][WindowProbe]_vars

(* _get_current_daily_limit, on any schedule and warm-up day: the first     *)
(* file was processed on day 0 and the clock stands some days later         *)
Schedules ==
    UNION {[1..n -> 1..MaxQuota] : n \in 1..MaxSchedLen}

LimitProbe ==
    /\ probe.fn = "none"
    /\ probe' = [fn |-> "limit", day |-> get_warmup_day, limit |-> _get_current_daily_limit]
    /\ UNCHANGED <<cfg, now, ledger, files, valid, pc, kind, cur, listed, wake, resp, ret,
                   runs, drops, claimed, refused, apiCalls, calls, dbUp, tally>>

InitLimit ==
    /\ cfg \in {[BaseConfig EXCEPT !.schedule = sch] : sch \in Schedules}
    /\ now \in {d * UnitsPerDay : d \in 0..(MaxWarmupDay - 1)}
    /\ ledger \in {[f \in Items |-> IF f = 1 THEN doc ELSE NoDoc] :
                      doc \in {NoDoc, [status |-> "processed", attempts |-> 1, processed_at |-> 0]}}
    /\ files = [f \in Items |-> IF ledger[f].status = "processed" THEN {"processed"} ELSE {"pending"}]
    /\ valid = [f \in Items |-> TRUE]
    /\ InitWorkers
    /\ probe = NoProbe
    /\ dbUp = TRUE

SpecLimit == InitLimit /\ [][LimitProbe]_vars

(* can_process_now, on a collection with documents of every status, with    *)
(* files processed the day before and on the day of the call                *)
EvalWindows == {<<10, 12>>, <<10, 10>>, <<22, 2>>, <<20, 24>>, <<20, 0>>}

EvalDocs(t) ==
    {NoDoc,
     [status |-> "processing", attempts |-> 1, processed_at |-> -1],
     [status |-> "failed", attempts |-> 2, processed_at |-> -1]}
    \cup {[status |-> "processed", attempts |-> 1, processed_at |-> u] :
             u \in {x \in {11 * UnitsPerHour, UnitsPerDay, UnitsPerDay + 10 * UnitsPerHour} : x <= t}}

EvalProbe ==
    /\ probe.fn = "none"
    /\ probe' = [fn |-> "eval", allowed |-> can_process_now.allowed,
                 reason |-> can_process_now.reason]
    /\ UNCHANGED <<cfg, now, ledger, files, valid, pc, kind, cur, listed, wake, resp, ret,
                   runs, drops, claimed, refused, apiCalls, calls, dbUp, tally>>

InitEval ==
    /\ cfg \in {[BaseConfig EXCEPT !.enabled = en, !.start = w[1], !.end = w[2]] :
                   en \in BOOLEAN, w \in EvalWindows}
    /\ now \in {UnitsPerDay + h * UnitsPerHour : h \in Hours}
    /\ ledger \in [Items -> EvalDocs(now)]
    /\ files = [f \in Items |-> {"pending"}]
    /\ valid = [f \in Items |-> TRUE]
    /\ InitWorkers
    /\ probe = NoProbe
    /\ dbUp = TRUE

SpecEval == InitEval /\ [][EvalProbe]_vars

(* get_warmup_day in a timezone west of, at or east of UTC, with either     *)
(* read-back of the driver: files that were claimed are marked processed at *)
(* some instants, the clock moves on, and get_warmup_day is called          *)
TzOffsets == {-5, 0, 3}

WarmupInstants ==
    {d * UnitsPerDay + h * UnitsPerHour : d \in 1..MaxWarmupDay, h \in {2, 12, 22}}

MarkProcessed(f) ==
    /\ probe.fn = "none"
    /\ ledger[f].status = "processing"
    /\ ledger' = mark_file_as_processed(f)
    /\ UNCHANGED <<cfg, now, files, valid, pc, kind, cur, listed, wake, resp, ret,
                   runs, drops, claimed, refused, apiCalls, calls, probe, dbUp, tally>>

PassTime ==
    /\ probe.fn = "none"
    /\ \E t \in WarmupInstants : t > now /\ now' = t
    /\ UNCHANGED <<cfg, ledger, files, valid, pc, kind, cur, listed, wake, resp, ret,
                   runs, drops, claimed, refused, apiCalls, calls, probe, dbUp, tally>>

WarmupProbe ==
    /\ probe.fn = "none"
    /\ probe' = [fn |-> "warmup", day |-> get_warmup_day]
    /\ UNCHANGED <<cfg, now, ledger, files, valid, pc, kind, cur, listed, wake, resp, ret,
                   runs, drops, claimed, refused, apiCalls, calls, dbUp, tally>>

InitWarmup ==
    /\ cfg \in {[BaseConfig EXCEPT !.tz = z, !.tzAware = a] : z \in TzOffsets, a \in BOOLEAN}
    /\ now \in {t \in WarmupInstants : t < 2 * UnitsPerDay}
    /\ ledger = [f \in Items |-> [status |-> "processing", attempts |-> 1, processed_at |-> -1]]
    /\ files = [f \in Items |-> {"pending"}]
    /\ valid = [f \in Items |-> TRUE]
    /\ InitWorkers
    /\ probe = NoProbe
    /\ dbUp = TRUE

NextWarmup ==
    \/ \E f \in Items : MarkProcessed(f)
    \/ PassTime
    \/ WarmupProbe

SpecWarmup == InitWarmup /\ [][NextWarmup]_vars

(* mark_file_as_processing called directly on a collection with documents   *)
(* of every status                                                          *)
ClaimProbe(f) ==
    /\ probe.fn = "none"
    /\ LET r == mark_file_as_processing(f) IN
       /\ ledger' = r.db
       /\ probe' = [fn |-> "claim", file |-> f, ok |-> r.ok, before |-> ledger]
    /\ UNCHANGED <<cfg, now, files, valid, pc, kind, cur, listed, wake, resp, ret,
                   runs, drops, claimed, refused, apiCalls, calls, dbUp, tally>>

InitClaim ==
    /\ cfg = BaseConfig
    /\ now \in {UnitsPerDay + h * UnitsPerHour : h \in {9, 11}}
    /\ ledger \in [Items -> EvalDocs(now)]
    /\ files = [f \in Items |-> {"pending"}]
    /\ valid = [f \in Items |-> TRUE]
    /\ InitWorkers
    /\ probe = NoProbe
    /\ dbUp = TRUE

NextClaim == \E f \in Items : ClaimProbe(f)

SpecClaim == InitClaim /\ [][NextClaim]_vars

----------------------------------------------------------------------------
(* What the specification says, stated on its own terms *)

(* Window membership, section 4.1 step 4 *)
SpecInWindow(hour, start, end) ==
    LET e == IF end \in {0, 24} THEN 24 ELSE end
    IN  IF start <= e THEN start <= hour /\ hour <= e
        ELSE hour >= start \/ hour <= e

(* DailyCounter: Succeeded items whose finished_at falls on the current day *)
DailyCounter ==
    Cardinality({f \in Items : /\ ledger[f].status = "processed"
                               /\ DateOf(LocalTime(ledger[f].processed_at))
                                    = DateOf(LocalTime(now))})

(* a task that has returned *)
Returned(p) == pc[p] = "idle" /\ ret[p].status \notin {"none", "running"}

OnlyTicksCalled == \A c \in calls : c.by = "tick"

(* no process_single_file was run, only ticks *)
OnlyTicksRun == \A p \in Procs : kind[p] = "tick"

(* WarmupDay: 1 without a success, else (today - date of first success) + 1 *)
SpecWarmupDay ==
    LET done == {f \in Items : ledger[f].status = "processed"}
        dates == {DateOf(LocalTime(ledger[f].processed_at)) : f \in done}
    IN  IF done = {} THEN 1
        ELSE DateOf(LocalTime(now)) - (CHOOSE d \in dates : \A e \in dates : d <= e) + 1

Min(a, b) == IF a <= b THEN a ELSE b

(* quota = QuotaSchedule[min(WarmupDay, len) - 1], 0-based; 1-based here *)
SpecQuota(day, schedule) == schedule[Min(day, Len(schedule))]

ProbedHour == HourOf(LocalTime(now))

(* the status changes the ledger allows: Pending -> Claimed,                *)
(* Claimed -> Succeeded, Claimed -> Failed                                  *)
LegalStep(a, b) ==
    \/ a = "absent" /\ b = "processing"
    \/ a = "processing" /\ b \in {"processed", "failed"}

(* some running task works on file f *)
InFlight(f) == \E p \in Procs : pc[p] # "idle" /\ cur[p] = f

AllIdle == \A p \in Procs : pc[p] = "idle"

(* a Claimed record nobody is working on *)
Orphaned(f) == ledger[f].status = "processing" /\ ~InFlight(f)

(* the step in which worker p calls recordFailure / recordSuccess *)
RecordsFailure(p) == pc[p] = "record" /\ resp[p] # "ok" /\ pc'[p] = "move"
RecordsSuccess(p) == pc[p] = "record" /\ resp[p] = "ok" /\ pc'[p] = "move"

----------------------------------------------------------------------------
(* C1: for every file name, at most one mark_file_as_processing call ever   *)
(* returns True, whatever ticks and manual runs interleave.                 *)
C1_ClaimAtMostOnce == \A f \in Items : claimed[f] <= 1

(* a file was claimed once and a second claim on it was refused *)
C1_Witness == \E f \in Items : claimed[f] = 1 /\ refused[f] >= 1

(* C2: _call_api is invoked at most once per file name, under overlapping   *)
(* and repeated process_pending_files and process_single_file runs.         *)
C2_SubmitAtMostOnce == \A f \in Items : apiCalls[f] <= 1

(* a file was submitted once, and a second run that worked on the same file *)
(* has returned as well                                                     *)
C2_Witness ==
    \E f \in Items : \E p, q \in Procs :
        /\ p # q /\ cur[p] = f /\ cur[q] = f
        /\ Returned(p) /\ Returned(q)
        /\ apiCalls[f] = 1

(* C3: two concurrent ticks, the only tasks run, that both listed the same  *)
(* single well-formed candidate: one returns success or failed, the other   *)
(* skipped, and the document is terminal afterwards.                        *)
C3_RaceOneRunsOtherSkips ==
    \A p, q \in Procs : \A f \in Items :
        ( /\ p # q
          /\ kind[p] = "tick" /\ kind[q] = "tick"
          /\ listed[p] = {f} /\ listed[q] = {f}
          /\ cur[p] = f /\ cur[q] = f
          /\ valid[f]
          /\ runs = 2
          /\ Returned(p) /\ Returned(q) )
        => /\ \/ ret[p].status \in {"success", "failed"} /\ ret[q].status = "skipped"
              \/ ret[q].status \in {"success", "failed"} /\ ret[p].status = "skipped"
           /\ ledger[f].status \in {"processed", "failed"}

(* C4: with warm-up enabled and only ticks submitting, the number of files  *)
(* processed on the current day never exceeds the limit of the current      *)
(* warm-up day.                                                             *)
C4_DailyQuotaRespected ==
    (cfg.enabled /\ OnlyTicksCalled) => DailyCounter <= _get_current_daily_limit

(* C5: with warm-up enabled, every _call_api made by a tick happens at an   *)
(* hour inside the configured window.                                       *)
C5_SubmitInsideWindow ==
    cfg.enabled =>
        \A c \in calls : c.by = "tick" => SpecInWindow(c.hour, cfg.start, cfg.end)

(* C6: can_process_now allows exactly when warm-up is disabled, or the hour *)
(* is inside the window and DailyCounter < quota; with warm-up enabled and  *)
(* the hour outside the window it denies whatever DailyCounter is.          *)
C6_EvaluateDecision ==
    probe.fn = "eval" =>
        LET inw == SpecInWindow(ProbedHour, cfg.start, cfg.end)
            quota == SpecQuota(SpecWarmupDay, cfg.schedule)
        IN  /\ probe.allowed = (~cfg.enabled \/ (inw /\ DailyCounter < quota))
            /\ (cfg.enabled /\ ~inw) => ~probe.allowed

(* denied outside the window although the daily count is below the quota *)
C6_Witness ==
    /\ probe.fn = "eval"
    /\ cfg.enabled
    /\ ~SpecInWindow(ProbedHour, cfg.start, cfg.end)
    /\ DailyCounter < SpecQuota(SpecWarmupDay, cfg.schedule)
    /\ ~probe.allowed

(* C7: for start_hour and end_hour in 1..23 and every hour, membership is   *)
(* start <= hour <= end when start <= end, and hour >= start or hour <= end *)
(* when start > end; in _is_in_time_window and in the test script's replica *)
C7_WindowMembership ==
    (probe.fn = "window" /\ cfg.start \in 1..23 /\ cfg.end \in 1..23) =>
        LET expected == IF cfg.start <= cfg.end
                        THEN cfg.start <= ProbedHour /\ ProbedHour <= cfg.end
                        ELSE ProbedHour >= cfg.start \/ ProbedHour <= cfg.end
        IN  probe.in = expected /\ probe.test = expected

(* the wrap-around window [22,2] admits hour 0 *)
C7_Witness ==
    /\ probe.fn = "window"
    /\ cfg.start = 22 /\ cfg.end = 2 /\ ProbedHour = 0
    /\ probe.in /\ probe.test

(* C8 as stated: for every h in 0..23 the window [h,h] admits hour h and no *)
(* other hour.                                                              *)
C8_SingleHourWindowAnyHour ==
    (probe.fn = "window" /\ cfg.start = cfg.end) =>
        (probe.in <=> ProbedHour = cfg.start)

(* C8 amended: for every h in 1..23 the window [h,h] admits hour h and no   *)
(* other hour ([0,0] is an end-of-day window and admits every hour).        *)
C8_SingleHourWindow ==
    (probe.fn = "window" /\ cfg.start = cfg.end /\ cfg.start \in 1..23) =>
        (probe.in <=> ProbedHour = cfg.start)

(* the window [10,10] at hour 10 *)
C8_Witness ==
    /\ probe.fn = "window"
    /\ cfg.start = 10 /\ cfg.end = 10 /\ ProbedHour = 10
    /\ probe.in

(* C9: with end_hour 0 or 24 the window admits exactly the hours            *)
(* start_hour..23, and end_hour 0 and 24 give the same result.              *)
C9_EndOfDayWindow ==
    (probe.fn = "window" /\ cfg.end \in {0, 24}) =>
        /\ probe.in <=> (cfg.start <= ProbedHour /\ ProbedHour <= 23)
        /\ IsInTimeWindow(ProbedHour, cfg.start, 0) = IsInTimeWindow(ProbedHour, cfg.start, 24)

(* the window [10,0] at hour 23 *)
C9_Witness ==
    /\ probe.fn = "window"
    /\ cfg.start = 10 /\ cfg.end = 0 /\ ProbedHour = 23
    /\ probe.in

(* C10: the daily limit is schedule[min(d, len(schedule)) - 1] (0-based)    *)
(* for the warm-up day d: the d-th entry up to the schedule's length, the   *)
(* last entry beyond it.                                                    *)
C10_StickyQuota ==
    probe.fn = "limit" =>
        /\ probe.day <= Len(cfg.schedule) => probe.limit = cfg.schedule[probe.day]
        /\ probe.day > Len(cfg.schedule) => probe.limit = cfg.schedule[Len(cfg.schedule)]
        /\ probe.limit = SpecQuota(probe.day, cfg.schedule)

(* a warm-up day beyond a schedule whose last entry differs from its first *)
C10_Witness ==
    /\ probe.fn = "limit"
    /\ probe.day > Len(cfg.schedule)
    /\ cfg.schedule[Len(cfg.schedule)] # cfg.schedule[1]
    /\ probe.limit = cfg.schedule[Len(cfg.schedule)]

(* C11: get_warmup_day is 1 while no file is processed; otherwise it is     *)
(* (today - D) + 1, D being the date, in the configured timezone, of the    *)
(* instant at which the first file was marked processed.                    *)
C11_WarmupDayFromFirstSuccess ==
    probe.fn = "warmup" => probe.day = SpecWarmupDay

(* C12: as the clock never goes backwards, get_warmup_day never decreases,  *)
(* whatever the ticks do to the collection.                                 *)
C12_WarmupDayNeverDecreases ==
    [][OnlyTicksRun' => get_warmup_day' >= get_warmup_day]_vars

(* C13: under ticks, a document's status changes only from absent to        *)
(* processing, from processing to processed and from processing to failed;  *)
(* a processed document never changes status again.                         *)
C13_LedgerTransitions ==
    [][OnlyTicksRun' =>
          \A f \in Items :
              ledger'[f].status # ledger[f].status
                  => LegalStep(ledger[f].status, ledger'[f].status)]_vars

(* C14: under ticks, mark_file_as_failed on a recorded file adds exactly 1  *)
(* to its attempts and leaves the number of processed documents as it is;   *)
(* the attempts of a document change only when it goes from processing to   *)
(* failed.                                                                  *)
C14_FailureAddsOneAttempt ==
    [][OnlyTicksRun' =>
       /\ \A p \in Procs :
            (RecordsFailure(p) /\ ledger[cur[p]].status # "absent")
                => /\ ledger'[cur[p]].attempts = ledger[cur[p]].attempts + 1
                   /\ get_processing_stats'.processed = get_processing_stats.processed
       /\ \A f \in Items :
            (ledger[f].status # "absent" /\ ledger'[f].attempts # ledger[f].attempts)
                => ledger[f].status = "processing" /\ ledger'[f].status = "failed"]_vars

(* C15: mark_file_as_processed leaves the collection as it is when the file *)
(* has no document or its document is already processed or failed; it       *)
(* changes a document only when that document is processing.                *)
C15_SuccessOnlyOnClaimed ==
    [][\A p \in Procs :
          (RecordsSuccess(p) /\ ledger[cur[p]].status # "processing")
              => ledger' = ledger]_vars

(* C16: after a tick, the only task run, whose candidate was malformed, the *)
(* collection holds a failed document for the file, the file is in the      *)
(* failed directory and the tick returned 'failed'.                         *)
C16_MalformedRecordedFailed ==
    \A p \in Procs : \A f \in Items :
        ( /\ kind[p] = "tick" /\ Returned(p) /\ cur[p] = f
          /\ ~valid[f]
          /\ runs = 1 /\ drops = 0 )
        => /\ ledger[f].status = "failed"
           /\ files[f] = {"failed"}
           /\ ret[p].status = "failed"

(* C17: once a call to MongoDB made by a tick has raised, no later step of  *)
(* that tick changes the collection or moves a file: the candidate stays    *)
(* pending.                                                                 *)
C17_LedgerOutageAborts ==
    [][\A p \in Procs :
          (kind[p] = "tick" /\ resp[p] = "dberr" /\ pc'[p] # pc[p])
              => ledger' = ledger /\ files' = files]_vars

C20_ValidateAcceptsWindows ==
    probe.fn = "window" => probe.accepted

(* C21: mark_file_as_processing on a file name that already has a document, *)
(* of any status, returns False and leaves every field of every document    *)
(* as it was.                                                               *)
C21_ClaimOnExistingIsNoOp ==
    (probe.fn = "claim" /\ probe.before[probe.file].status # "absent")
        => ~probe.ok /\ ledger = probe.before

(* a claim on a failed document was refused and changed nothing *)
C21_Witness ==
    /\ probe.fn = "claim"
    /\ probe.before[probe.file].status = "failed"
    /\ ~probe.ok
    /\ ledger = probe.before

(* C22: a tick that the rate limiter denies returns 'skipped' without       *)
(* listing or choosing a file, and leaves every document and every file     *)
(* where it was.                                                            *)
C22_DeniedTickTouchesNothing ==
    [][(runs' = runs + 1 /\ OnlyTicksRun' /\ ~can_process_now.allowed)
          => /\ ledger' = ledger /\ files' = files /\ pc' = pc
             /\ claimed' = claimed /\ apiCalls' = apiCalls
             /\ \E p \in Procs :
                   /\ pc[p] = "idle"
                   /\ ret'[p].status = "skipped"
                   /\ cur'[p] = NoItem /\ listed'[p] = {}]_vars

(* a tick was denied for the daily limit while a file without a document    *)
(* was waiting in the pending directory                                     *)
C22_Witness ==
    \E p \in Procs :
        /\ kind[p] = "tick" /\ Returned(p)
        /\ ret[p].status = "skipped" /\ ret[p].reason.kind = "limit"
        /\ cur[p] = NoItem /\ listed[p] = {}
        /\ get_pending_files # {}

(* C23: within a tick the order is claim, sleep, submission, bookkeeping,   *)
(* move: _call_api runs only after this tick's mark_file_as_processing      *)
(* returned True and the sleep is over, at most once per tick, and a file   *)
(* is moved only by a tick that is past its bookkeeping.                    *)
C23_StepOrder ==
    [][/\ \A p \in Procs :
            kind'[p] = "tick" =>
                /\ tally'[p].posts <= 1
                /\ tally'[p].posts = 1
                       => tally'[p].writes >= 1 /\ pc'[p] \in {"record", "move"}
                /\ pc'[p] = "sleep" => tally'[p] = [writes |-> 1, posts |-> 0]
                /\ tally'[p].posts > tally[p].posts
                       => pc[p] = "sleep" /\ now >= wake[p] /\ pc'[p] = "record"
       /\ (OnlyTicksRun' /\ files' # files /\ drops' = drops)
              => \E p \in Procs : pc[p] = "move" /\ pc'[p] = "idle"]_vars

(* a tick claimed its file, slept, got no response from the one call it     *)
(* made, recorded the failure and is about to move the file                 *)
C23_Witness ==
    \E p \in Procs :
        /\ kind[p] = "tick" /\ pc[p] = "move" /\ resp[p] = "fail"
        /\ tally[p] = [writes |-> 2, posts |-> 1]
        /\ ledger[cur[p]].status = "failed"

(* C25 as stated: a tick works on at most one file and writes to the        *)
(* collection at most once.                                                 *)
C25_OneWritePerTick ==
    \A p \in Procs : kind[p] = "tick" => tally[p].writes <= 1

(* C25 amended: a tick works on at most one file and writes to the          *)
(* collection at most twice, the insert of the claim and the update that    *)
(* records the outcome.                                                     *)
C25_OneFileTwoWritesPerTick ==
    [][\A p \in Procs :
          kind'[p] = "tick" =>
              /\ tally'[p].writes <= 2
              /\ cur'[p] # cur[p] => pc[p] \in {"idle", "list"}]_vars

(* a tick has inserted the claim and recorded the success of its file *)
C25_Witness ==
    \E p \in Procs :
        /\ kind[p] = "tick" /\ pc[p] = "move" /\ resp[p] = "ok"
        /\ tally[p].writes = 2
        /\ ledger[cur[p]].status = "processed"

(* C24: a file that failed and was moved to the failed directory, once it   *)
(* is put into the pending directory again, is listed by get_pending_files  *)
(* and mark_file_as_processing on it returns True.                          *)
C24_FailedIsReclaimable ==
    \A f \in Items :
        ( /\ ledger[f].status = "failed"
          /\ files[f] = {"failed", "pending"}
          /\ ~InFlight(f) )
        => f \in get_pending_files /\ mark_file_as_processing(f).ok

(* C26: a task returns 'success' for a file only if its own _call_api call  *)
(* got a response for that file.                                            *)
C26_SuccessMeansSubmitted ==
    [][\A p \in Procs :
          (pc[p] = "move" /\ pc'[p] = "idle" /\ ret'[p].status = "success")
              => tally[p].posts = 1 /\ resp[p] = "ok"]_vars

(* C27: once the ticks, the only tasks run, have all returned, a file in    *)
(* the processed directory has a processed document and a file in the       *)
(* failed directory has no processed document.                              *)
C27_LocationAgreesWithLedger ==
    (OnlyTicksRun /\ AllIdle) =>
        \A f \in Items :
            /\ "processed" \in files[f] => ledger[f].status = "processed"
            /\ "failed" \in files[f] => ledger[f].status # "processed"

(* C28: under ticks, a document in status processing always has a running   *)
(* task that works on its file and will record the outcome.                 *)
C28_ClaimedHasOwner ==
    OnlyTicksRun => \A f \in Items : ~Orphaned(f)

(* C29: under ticks, with MongoDB reachable, every file in the pending      *)
(* directory that is not processed and that no running task works on is in  *)
(* the list get_pending_files hands to the next tick.                       *)
C29_PendingIsSelectable ==
    (OnlyTicksRun /\ dbUp) =>
        \A f \in Items :
            ("pending" \in files[f] /\ ledger[f].status # "processed" /\ ~InFlight(f))
                => f \in get_pending_files

(* C30: get_warmup_day returns at least 1, whatever processed_at the driver *)
(* hands back for the first processed file.                                 *)
C30_WarmupDayAtLeastOne ==
    probe.fn = "warmup" => probe.day >= 1

====
